---- MODULE Spec2Model ----
(***************************************************************************)
(* The JACQ memory graph: the Entity / Fact records of                     *)
(* src/memory/schema.py, the touch (reinforcement) rule as written in      *)
(* examples/session_example.py, and the Memory Graph Store (decay sweep    *)
(* and bounded traversal), whose implementation is not among the source    *)
(* files and is modelled from spec.md sections 4.2 and 4.3.                *)
(*                                                                         *)
(* Numbers: confidence is kept in tenths (0.5 is 5), relevance in          *)
(* hundredths (1.0 is 100, the 0.05/week rate is 5), time in whole weeks.  *)
(***************************************************************************)
EXTENDS Integers, Sequences, FiniteSets, TLC

VARIABLES
    entities,   \* Store: Entity id -> Entity
    facts,      \* Store: the fact collection, in insertion order
    relevance,  \* Store: relevance of facts[i], in hundredths
    hist,       \* per fact: the status it was constructed with
    now,        \* the clock (datetime.utcnow()), in weeks
    sweeps,     \* how many decay sweeps have run
    ret,        \* what the last operation returned
    pc,         \* SpecConc: the statement the touching thread is at
    observed,   \* SpecConc: the Fact state the reader thread last saw
    stable      \* SpecConc: the Fact as it was before the touch in progress

vars == <<entities, facts, relevance, hist, now, sweeps, ret, pc, observed,
          stable>>

----------------------------------------------------------------------------
(* Bounds of the model *)

MaxFacts == 1
MaxAccess == 4
MaxNow == 2
MaxSweeps == 2
MaxEdges == 2
MaxHops == 2

----------------------------------------------------------------------------
(* schema.py *)

None == "None"

EntityType == {"person", "project", "concept", "decision", "preference",
               "file", "conversation"}

FactStatus == {"staged", "confirmed", "superseded", "retracted"}

ValidationError == [error |-> "ValidationError"]

ConfidenceMin == 0
ConfidenceMax == 10
ConfidenceDefault == 5

\* An optional keyword argument: <<>> when not given, <<v>> when given.
Opt(arg, default) == IF arg = <<>> THEN default ELSE arg[1]

\* Field(default=0.5, ge=0.0, le=1.0): only a given value is validated.
confidence_ok_no_upper(c) == c >= ConfidenceMin

confidence_ok(c) == c >= ConfidenceMin /\ c <= ConfidenceMax

\* Fact(...): the record pydantic builds, or the ValidationError it raises.
\* access_count starts at 0; last_accessed is utcnow() unless the caller
\* passes one.  created_at and source, which no operation reads or writes
\* after construction, are left out of the record.
Fact(id, subject_id, predicate, object_id, value, status, confidence, last_accessed, t) ==
    IF confidence # <<>> /\ ~confidence_ok(confidence[1])
    THEN ValidationError
    ELSE [id            |-> id,
          subject_id    |-> subject_id,
          predicate     |-> predicate,
          object_id     |-> object_id,
          value         |-> value,
          status        |-> Opt(status, "staged"),
          confidence    |-> Opt(confidence, ConfidenceDefault),
          access_count  |-> 0,
          last_accessed |-> Opt(last_accessed, t)]

\* Entity(...): description, the timestamps and metadata, which no
\* operation of the model reads, are left out of the record.
Entity(id, entity_type, name) ==
    [id |-> id, entity_type |-> entity_type, name |-> name]

isinstance_Entity(v) == "entity_type" \in DOMAIN v

Entity_eq_all_fields(self, other) ==
    IF isinstance_Entity(other) THEN self = other ELSE FALSE

\* Entity.__eq__
Entity_eq(self, other) ==
    IF isinstance_Entity(other) THEN self.id = other.id ELSE FALSE

\* hash() of a str: a function of the string's characters alone.
hash_str(s) == IF s = "e1" THEN 11 ELSE 23

\* Entity.__hash__
Entity_hash(self) == hash_str(self.id)

is_relationship_swapped(f) == f.value # None

is_relationship(f) == f.object_id # None

is_attribute(f) == f.value # None

----------------------------------------------------------------------------
(* session_example.py: the touch rule, statement by statement *)

PromoteAt == 3

touch_count(f) == [f EXCEPT !.access_count = @ + 1]

touch_stamp(f, t) == [f EXCEPT !.last_accessed = t]

touch_promote_early(f) ==
    IF f.access_count >= PromoteAt - 1
    THEN [f EXCEPT !.status = "confirmed"] ELSE f

touch_promote(f) ==
    IF f.access_count >= PromoteAt
    THEN [f EXCEPT !.status = "confirmed"] ELSE f

touch(f, t) == touch_promote(touch_stamp(touch_count(f), t))

----------------------------------------------------------------------------
(* The Store's decay sweep (spec.md 4.2) *)

DecayRate == 5
CleanupThreshold == 20
RelevanceDefault == 100

Max(a, b) == IF a >= b THEN a ELSE b

decay_no_floor(r, weeks_inactive) == r - DecayRate * weeks_inactive

decay(r, weeks_inactive) == Max(0, r - DecayRate * weeks_inactive)

\* Whole weeks from last_accessed to now.
weeks_inactive(f, t) == t - f.last_accessed

\* Step 1: every fact's relevance decayed in place, in collection order.
RECURSIVE decay_all(_, _, _)
decay_all(fs, rel, t) ==
    IF fs = <<>> THEN <<>>
    ELSE <<decay(Head(rel), weeks_inactive(Head(fs), t))>>
         \o decay_all(Tail(fs), Tail(rel), t)

\* Steps 2 and 3: the number of facts whose resulting relevance is below
\* the threshold.
RECURSIVE count_candidates(_)
count_candidates_strict(rel) ==
    Cardinality({i \in DOMAIN rel : rel[i] > 0 /\ rel[i] < CleanupThreshold})

count_candidates(rel) ==
    IF rel = <<>> THEN 0
    ELSE (IF Head(rel) < CleanupThreshold THEN 1 ELSE 0)
         + count_candidates(Tail(rel))

----------------------------------------------------------------------------
(* Operations on the Store, each a whole handler *)

NoRet == [op |-> "none"]

Idle == [at |-> "idle", fact |-> 0]

ConcIdle ==
    /\ pc = Idle
    /\ observed = <<>>
    /\ stable = <<>>

EmptyMap == [id \in {} |-> None]

InitStore ==
    /\ entities = EmptyMap
    /\ facts = <<>>
    /\ relevance = <<>>
    /\ hist = <<>>
    /\ now = 0
    /\ sweeps = 0
    /\ ret = NoRet

\* A collaborator constructs a Fact and hands it to add_fact, which appends
\* it; a ValidationError leaves the Store as it was.
AddFact(subject_id, object_id, value, status, confidence, rel, idle) ==
    LET f == Fact(Len(facts) + 1, subject_id, "p", object_id, value,
                  status, confidence, idle, now)
    IN  /\ IF f = ValidationError
           THEN /\ ret' = [op |-> "Fact", raised |-> TRUE]
                /\ UNCHANGED <<facts, relevance, hist>>
           ELSE /\ facts' = Append(facts, f)
                /\ relevance' = Append(relevance, rel)
                /\ hist' = Append(hist, f.status)
                /\ ret' = [op |-> "Fact", raised |-> FALSE]
        /\ UNCHANGED <<entities, now, sweeps, pc, observed, stable>>

\* add_entity: inserts or overwrites by id.
AddEntity(e) ==
    /\ entities' = [id \in DOMAIN entities \cup {e.id} |->
                       IF id = e.id THEN e ELSE entities[id]]
    /\ ret' = [op |-> "add_entity"]
    /\ UNCHANGED <<facts, relevance, hist, now, sweeps, pc, observed, stable>>

\* Breadth-first search over the facts that are relationships, each an edge
\* subject_id -> object_id, one hop per round; an id with no fact indexed
\* under it is a dead end.
RECURSIVE bfs(_, _, _)
bfs(frontier, visited, hops) ==
    IF hops <= 0 \/ frontier = {} THEN visited
    ELSE LET out  == {i \in DOMAIN facts :
                         /\ facts[i].subject_id \in frontier
                         /\ is_relationship(facts[i])}
             next == {facts[i].object_id : i \in out} \ visited
         IN  bfs(next, visited \cup next, hops - 1)

find_related_entities_with_start(start_id, max_hops) ==
    bfs({start_id}, {start_id}, max_hops)

find_related_entities(start_id, max_hops) ==
    bfs({start_id}, {start_id}, max_hops) \ {start_id}

FindRelated(start_id, max_hops) ==
    /\ ret' = [op |-> "find_related_entities", start_id |-> start_id,
               max_hops |-> max_hops,
               result |-> find_related_entities(start_id, max_hops)]
    /\ UNCHANGED <<entities, facts, relevance, hist, now, sweeps, pc,
                   observed, stable>>

Touch(i) ==
    /\ i \in DOMAIN facts
    /\ facts[i].access_count < MaxAccess
    /\ facts' = [facts EXCEPT ![i] = touch(@, now)]
    /\ ret' = [op |-> "touch"]
    /\ UNCHANGED <<entities, relevance, hist, now, sweeps, pc, observed,
                   stable>>

RunDecayPass ==
    /\ sweeps < MaxSweeps
    /\ sweeps' = sweeps + 1
    /\ relevance' = decay_all(facts, relevance, now)
    /\ ret' = [op |-> "run_decay_pass", before |-> relevance,
               count |-> count_candidates(relevance')]
    /\ UNCHANGED <<entities, facts, hist, now, pc, observed, stable>>

Tick ==
    /\ now < MaxNow
    /\ now' = now + 1
    /\ ret' = NoRet
    /\ UNCHANGED <<entities, facts, relevance, hist, sweeps, pc, observed,
                   stable>>

----------------------------------------------------------------------------
(* Spec: the lifecycle of facts in one Store, one caller *)

Init == InitStore /\ ConcIdle

NewFact ==
    /\ Len(facts) < MaxFacts
    /\ \E status \in FactStatus, aged \in BOOLEAN :
          AddFact("e1", "e2", None, <<status>>, <<>>,
                  IF aged THEN 10 ELSE RelevanceDefault,
                  IF aged THEN <<now - 10>> ELSE <<>>)

TouchFact == \E i \in DOMAIN facts : Touch(i)

Next ==
    \/ NewFact
    \/ TouchFact
    \/ RunDecayPass
    \/ Tick

Spec == Init /\ [][Next]_vars

----------------------------------------------------------------------------
(* Claims checked under Spec *)

\* C1: a fact constructed STAGED with access_count 0 is still STAGED after
\* fewer than 3 touches, is CONFIRMED once the 3rd touch has made its
\* access_count 3, and is never STAGED again after any later touch.
C1_Promotion ==
    \A i \in DOMAIN facts :
        hist[i] = "staged" =>
            /\ facts[i].access_count < 3 => facts[i].status = "staged"
            /\ facts[i].access_count >= 3 => facts[i].status = "confirmed"

\* A fresh STAGED fact that has been touched a 4th time and is CONFIRMED.
C1_Witness ==
    \E i \in DOMAIN facts :
        /\ hist[i] = "staged"
        /\ facts[i].access_count = 4
        /\ facts[i].status = "confirmed"
        /\ ret.op = "touch"

AllowedTransitions ==
    {<<"staged", "confirmed">>, <<"confirmed", "superseded">>,
     <<"confirmed", "retracted">>}

\* C2: over any sequence of touch and run_decay_pass, every change of a
\* fact's status is STAGED -> CONFIRMED, CONFIRMED -> SUPERSEDED or
\* CONFIRMED -> RETRACTED; so touching a CONFIRMED, SUPERSEDED or RETRACTED
\* fact leaves its status as it was.
C2_StatusTransitions ==
    [][\A i \in DOMAIN facts :
          (i \in DOMAIN facts' /\ facts'[i].status # facts[i].status)
              => <<facts[i].status, facts'[i].status>> \in AllowedTransitions]_vars

C6_Decay ==
    ret.op = "run_decay_pass" =>
        \A i \in DOMAIN facts :
            LET old == ret.before[i]
                w   == now - facts[i].last_accessed
                shortfall == old - 5 * w
            IN  /\ relevance[i] = (IF shortfall > 0 THEN shortfall ELSE 0)
                /\ relevance[i] <= old
                /\ relevance[i] >= 0
                /\ w = 0 => relevance[i] = old
                /\ \A w1 \in 0..w : decay(old, w1) >= relevance[i]
                /\ (old = 100 /\ w = 2) => relevance[i] = 90

\* A sweep that decayed a fact of relevance 1.0, idle for 2 weeks, to 0.9.
C6_Witness ==
    /\ ret.op = "run_decay_pass"
    /\ \E i \in DOMAIN facts :
          /\ ret.before[i] = 100
          /\ now - facts[i].last_accessed = 2
          /\ relevance[i] = 90

----------------------------------------------------------------------------
(* SpecFact: the Fact constructor and its two predicates, over their inputs *)

ConfidenceInputs == {<<>>, <<-1>>, <<0>>, <<8>>, <<10>>, <<11>>, <<15>>}

\* Fact(subject_id=..., predicate=..., object_id=..., value=...,
\* status=..., confidence=...), as the tests and the example call it.
Construct ==
    \E object_id \in {None, "e2"}, value \in {None, "v"},
       status \in {<<>>} \cup {<<st>> : st \in FactStatus},
       confidence \in ConfidenceInputs :
        LET f == Fact(1, "e1", "p", object_id, value, status, confidence,
                      <<>>, now)
        IN  /\ ret' = [op |-> "Fact", confidence |-> confidence,
                       raised |-> (f = ValidationError), result |-> f]
            /\ UNCHANGED <<entities, facts, relevance, hist, now, sweeps, pc,
                           observed, stable>>

\* fact.is_relationship() and fact.is_attribute() on the Fact just built.
Inspect ==
    /\ ret.op = "Fact"
    /\ ~ret.raised
    /\ ret' = [op |-> "inspect", fact |-> ret.result,
               is_relationship |-> is_relationship(ret.result),
               is_attribute |-> is_attribute(ret.result)]
    /\ UNCHANGED <<entities, facts, relevance, hist, now, sweeps, pc,
                   observed, stable>>

NextFact == Construct \/ Inspect

SpecFact == Init /\ [][NextFact]_vars

\* C7: constructing a Fact with a confidence outside [0.0, 1.0] fails with
\* a validation error and yields no Fact; with one inside the range it
\* succeeds and stores that confidence unchanged; with none given, 0.5.
C7_ConfidenceBound ==
    ret.op = "Fact" =>
        LET given == ret.confidence
        IN  /\ (given # <<>> /\ (given[1] < 0 \/ given[1] > 10))
                  => (ret.raised /\ ret.result = ValidationError)
            /\ (given # <<>> /\ given[1] >= 0 /\ given[1] <= 10)
                  => (~ret.raised /\ ret.result.confidence = given[1])
            /\ given = <<>>
                  => (~ret.raised /\ ret.result.confidence = 5)

\* Fact(confidence=1.5) has raised.
C7_Witness ==
    /\ ret.op = "Fact"
    /\ ret.confidence = <<15>>
    /\ ret.raised

\* C8: is_relationship() is true iff object_id is set, is_attribute() is
\* true iff value is set and object_id is unset; the two are never both
\* true, and a fact with both set is a relationship and not an attribute.
C8_Classification ==
    ret.op = "inspect" =>
        /\ ret.is_relationship <=> (ret.fact.object_id # None)
        /\ ret.is_attribute
              <=> (ret.fact.value # None /\ ret.fact.object_id = None)
        /\ ~(ret.is_relationship /\ ret.is_attribute)

----------------------------------------------------------------------------
(* SpecGraph: entities, relationship and attribute facts, and traversal *)

EntityIds == {"e1", "e2", "e3"}

\* The ids under which a collaborator adds an Entity; facts may also name
\* the other ids, whose entities are never added.
AddedIds == {"e1"}

NewEntity == \E id \in AddedIds : AddEntity(Entity(id, "concept", id))

NewEdge ==
    /\ Len(facts) < MaxEdges
    /\ \E subject_id \in EntityIds, object_id \in EntityIds \cup {None},
          value \in {None, "v"} :
          AddFact(subject_id, object_id, value, <<>>, <<>>,
                  RelevanceDefault, <<>>)

Query ==
    \E start_id \in EntityIds, max_hops \in -1..MaxHops :
        FindRelated(start_id, max_hops)

NextGraph == NewEntity \/ NewEdge \/ Query

SpecGraph == Init /\ [][NextGraph]_vars

\* There is a fact with object_id set from a to b.
Edge(a, b) ==
    \E i \in DOMAIN facts :
        /\ facts[i].object_id # None
        /\ facts[i].subject_id = a
        /\ facts[i].object_id = b

\* A directed path of exactly n such facts from a to b.
PathOfLength(a, b, n) ==
    \E path \in [0..n -> EntityIds] :
        /\ path[0] = a
        /\ path[n] = b
        /\ \A k \in 0..(n - 1) : Edge(path[k], path[k + 1])

\* C3: for max_hops >= 1 the returned set holds, apart from the start id,
\* exactly the entity ids reachable from start_id by a directed path of 1 to
\* max_hops relationship facts followed subject_id -> object_id: none that
\* needs a longer path, a reverse edge or an attribute fact.
C3_Reachability ==
    (ret.op = "find_related_entities" /\ ret.max_hops >= 1) =>
        /\ ret.result \subseteq EntityIds
        /\ \A id \in EntityIds \ {ret.start_id} :
              id \in ret.result
                  <=> \E n \in 1..ret.max_hops :
                          PathOfLength(ret.start_id, id, n)

\* With the edges e1 -> e2 and e2 -> e3 and an attribute-free Store,
\* find_related_entities(e1, 2) has returned e2 and e3.
C3_Witness ==
    /\ ret.op = "find_related_entities"
    /\ ret.start_id = "e1"
    /\ ret.max_hops = 2
    /\ Len(facts) = 2
    /\ Edge("e1", "e2")
    /\ Edge("e2", "e3")
    /\ ret.result = {"e2", "e3"}

\* The Store holds nothing under the id: no entity was added with it and no
\* fact is indexed under it as subject.
Unknown(id) ==
    /\ id \notin DOMAIN entities
    /\ \A i \in DOMAIN facts : facts[i].subject_id # id

----------------------------------------------------------------------------
(* SpecConc: touch run statement by statement by one thread while a reader *)
(* thread looks at the facts; the source takes no lock anywhere            *)

FreshFact ==
    /\ Len(facts) < MaxFacts
    /\ AddFact("e1", "e2", None, <<>>, <<>>, RelevanceDefault, <<>>)

\* works_on_fact.access_count += 1
TouchCount(i) ==
    /\ pc = Idle
    /\ i \in DOMAIN facts
    /\ facts[i].access_count < MaxAccess
    /\ stable' = <<facts[i]>>
    /\ facts' = [facts EXCEPT ![i] = touch_count(@)]
    /\ pc' = [at |-> "stamp", fact |-> i]
    /\ UNCHANGED <<entities, relevance, hist, now, sweeps, ret, observed>>

\* works_on_fact.last_accessed = datetime.utcnow()
TouchStamp ==
    /\ pc.at = "stamp"
    /\ facts' = [facts EXCEPT ![pc.fact] = touch_stamp(@, now)]
    /\ pc' = [pc EXCEPT !.at = "promote"]
    /\ UNCHANGED <<entities, relevance, hist, now, sweeps, ret, observed,
                   stable>>

\* if works_on_fact.access_count >= 3: works_on_fact.status = CONFIRMED
TouchPromote ==
    /\ pc.at = "promote"
    /\ facts' = [facts EXCEPT ![pc.fact] = touch_promote(@)]
    /\ pc' = Idle
    /\ stable' = <<>>
    /\ UNCHANGED <<entities, relevance, hist, now, sweeps, ret, observed>>

\* The reader reads fact i; with it is kept the fact as it was before the
\* touch in progress on it, if there is one.
Observe(i) ==
    /\ i \in DOMAIN facts
    /\ observed' = <<[seen |-> facts[i],
                      pre  |-> IF pc.fact = i THEN stable[1] ELSE facts[i]]>>
    /\ UNCHANGED <<entities, facts, relevance, hist, now, sweeps, ret, pc,
                   stable>>

TouchBegin == \E i \in DOMAIN facts : TouchCount(i)

Read == \E i \in DOMAIN facts : Observe(i)

NextConc ==
    \/ FreshFact
    \/ TouchBegin
    \/ TouchStamp
    \/ TouchPromote
    \/ Read
    \/ Tick

SpecConc == Init /\ [][NextConc]_vars

\* C9: a reader running concurrently with touch sees every Fact either as
\* it was before that touch or as it is after it, never partially updated
\* (such as access_count already 3 while status is still STAGED).
C9_NoPartialFact ==
    \A k \in DOMAIN observed :
        \/ observed[k].seen = observed[k].pre
        \/ \E t \in 0..MaxNow : observed[k].seen = touch(observed[k].pre, t)

----------------------------------------------------------------------------
(* SpecEntity: Entity.__eq__ and Entity.__hash__ over their inputs *)

EntityValues ==
    {Entity(id, entity_type, name) :
        id \in {"e1", "e2"}, entity_type \in {"person", "project"},
        name \in {"Joshua", "JACQ"}}

\* Values that are no Entity: a str equal to an entity's id, and a Fact
\* whose id equals an entity's id.
OtherValues ==
    {[str |-> "e1"], Fact("e1", "e1", "p", None, None, <<>>, <<>>, <<>>, 0)}

Values == EntityValues \cup OtherValues

\* a == a, a == b, b == a, b == c, a == c, hash(a), hash(b) for an Entity a;
\* where the left operand is no Entity, Entity.__eq__ is the reflected
\* operand's.
Compare ==
    \E a \in EntityValues, b \in Values, c \in Values :
        /\ ret' = [op |-> "__eq__", a |-> a, b |-> b, c |-> c,
                   a_eq_a |-> Entity_eq(a, a),
                   a_eq_b |-> Entity_eq(a, b),
                   a_eq_c |-> Entity_eq(a, c),
                   b_eq_a |-> IF isinstance_Entity(b)
                              THEN Entity_eq(b, a) ELSE Entity_eq(a, b),
                   b_eq_c |-> IF isinstance_Entity(b) THEN Entity_eq(b, c)
                              ELSE IF isinstance_Entity(c)
                                   THEN Entity_eq(c, b) ELSE b = c,
                   hash_a |-> Entity_hash(a),
                   hash_b |-> IF isinstance_Entity(b)
                              THEN Entity_hash(b) ELSE 0]
        /\ UNCHANGED <<entities, facts, relevance, hist, now, sweeps, pc,
                       observed, stable>>

NextEntity == Compare

SpecEntity == Init /\ [][NextEntity]_vars

\* C10: two Entity values are equal iff their ids are equal, whatever their
\* other fields; equality is reflexive, symmetric and transitive, equal
\* entities have equal hashes, and an Entity never equals a non-Entity.
C10_EntityEquality ==
    ret.op = "__eq__" =>
        /\ ret.a_eq_a
        /\ isinstance_Entity(ret.b) =>
              /\ ret.a_eq_b <=> (ret.a.id = ret.b.id)
              /\ ret.a_eq_b <=> ret.b_eq_a
              /\ ret.a_eq_b => ret.hash_a = ret.hash_b
        /\ ~isinstance_Entity(ret.b) => ~ret.a_eq_b
        /\ (ret.a_eq_b /\ ret.b_eq_c) => ret.a_eq_c

\* Two entities with the same id and different entity_type and name have
\* compared equal and hash alike.
C10_Witness ==
    /\ ret.op = "__eq__"
    /\ isinstance_Entity(ret.b)
    /\ ret.a.id = ret.b.id
    /\ ret.a.entity_type # ret.b.entity_type
    /\ ret.a.name # ret.b.name
    /\ ret.a_eq_b
    /\ ret.hash_a = ret.hash_b

----------------------------------------------------------------------------
(* router.py: IntentRouter.  A user input is the set of the keywords below *)
(* that occur in it; a compiled pattern is the set of keywords it finds.   *)
(* Scores and confidence are kept in sixtieths (0.3 is 18, 1/3 is 20).     *)

Capability == <<"research", "write", "code", "create", "remember", "reflect">>

\* One keyword out of each pattern's alternatives, in the order of PATTERNS.
PATTERNS ==
    [research |-> <<{"search"}, {"latest"}>>,
     write    |-> <<{"write"}, {"edit"}>>,
     code     |-> <<{"debug"}, {"test"}, {"fence"}>>,
     create   |-> <<{"design"}, {"diagram"}>>,
     remember |-> <<{"remember"}, {"keep in mind"}>>,
     reflect  |-> <<{"plan"}, {"next steps"}>>]

past_refs == <<{"earlier"}, {"we discussed"}, {"continue"}>>

\* The keywords an input is made of; "fence" stands for a code-block fence
\* (three backquotes), and "hello" is found by no pattern.
Keywords ==
    {"search", "latest", "write", "edit", "debug", "test", "fence", "design",
     "diagram", "remember", "keep in mind", "plan", "next steps", "earlier",
     "hello"}

\* p.search(text)
search(p, text) == p \cap text # {}

\* matches / max(len(patterns), 1), in sixtieths
score_capability(text, capability) ==
    LET patterns == PATTERNS[capability]
        matches  == Cardinality({k \in DOMAIN patterns :
                                    search(patterns[k], text)})
    IN  (60 * matches) \div Max(Len(patterns), 1)

RECURSIVE insert_desc_ties_last(_, _)
insert_desc_ties_last(sorted, x) ==
    IF sorted = <<>> THEN <<x>>
    ELSE IF Head(sorted)[2] > x[2]
         THEN <<Head(sorted)>> \o insert_desc_ties_last(Tail(sorted), x)
         ELSE <<x>> \o sorted

\* list.sort(key=score, reverse=True) is stable: an item goes behind every
\* item already placed whose score is not smaller.
RECURSIVE insert_desc(_, _)
insert_desc(sorted, x) ==
    IF sorted = <<>> THEN <<x>>
    ELSE IF Head(sorted)[2] >= x[2]
         THEN <<Head(sorted)>> \o insert_desc(Tail(sorted), x)
         ELSE <<x>> \o sorted

RECURSIVE sort_desc(_)
sort_desc(items) ==
    IF items = <<>> THEN <<>>
    ELSE insert_desc(sort_desc(SubSeq(items, 1, Len(items) - 1)),
                     items[Len(items)])

mentions_past_context(text) ==
    \E k \in DOMAIN past_refs : search(past_refs[k], text)

summarize_intent(text, capability) ==
    CASE capability = "research" -> "User wants to find or learn information"
      [] capability = "write"    -> "User wants to create or edit content"
      [] capability = "code"     -> "User wants to write or modify code"
      [] capability = "create"   -> "User wants to generate visual content"
      [] capability = "remember" -> "User wants to save information for later"
      [] capability = "reflect"  -> "User wants to plan or analyze"
      [] OTHER                   -> "Processing user request"

BaseBoost == 18
FullConfidence == 60

Min(a, b) == IF a <= b THEN a ELSE b

\* IntentRouter.route: the RoutingDecision for user_input.
route(user_input) ==
    LET scores    == sort_desc([k \in DOMAIN Capability |->
                        <<Capability[k],
                          score_capability(user_input, Capability[k])>>])
        primary   == scores[1]
        next2     == SubSeq(scores, 2, 3)
        kept      == SelectSeq(next2, LAMBDA cs : cs[2] > 0)
        secondary == [k \in DOMAIN kept |-> kept[k][1]]
    IN  [primary_capability     |-> primary[1],
         secondary_capabilities |-> secondary,
         confidence             |-> Min(primary[2] + BaseBoost, FullConfidence),
         intent_summary         |-> summarize_intent(user_input, primary[1]),
         requires_memory        |->
             \/ primary[1] = "remember"
             \/ \E k \in DOMAIN secondary : secondary[k] = "remember"
             \/ mentions_past_context(user_input)]

\* A user input arrives.
InitRouter ==
    /\ entities = EmptyMap
    /\ facts = <<>>
    /\ relevance = <<>>
    /\ hist = <<>>
    /\ now = 0
    /\ sweeps = 0
    /\ ret \in {[op |-> "input", user_input |-> text] :
                    text \in SUBSET Keywords}
    /\ ConcIdle

\* decision = router.route(user_input)
Route ==
    /\ ret.op = "input"
    /\ ret' = [op |-> "route", user_input |-> ret.user_input,
               decision |-> route(ret.user_input)]
    /\ UNCHANGED <<entities, facts, relevance, hist, now, sweeps, pc,
                   observed, stable>>

NextRouter == Route

SpecRouter == InitRouter /\ [][NextRouter]_vars

\* The number of patterns of capability k found in the input, over the
\* number of its patterns, in sixtieths.
MatchScore(text, k) ==
    LET ps == PATTERNS[Capability[k]]
    IN  (60 * Cardinality({j \in DOMAIN ps : ps[j] \cap text # {}}))
            \div Len(ps)

\* The place of capability k in the ranking: by score, highest first, and
\* among equal scores by place of declaration.
Rank(text, k) ==
    1 + Cardinality({j \in DOMAIN Capability :
            \/ MatchScore(text, j) > MatchScore(text, k)
            \/ (MatchScore(text, j) = MatchScore(text, k) /\ j < k)})

\* C11: the primary capability has a maximal pattern-match score, ties going
\* to the capability declared earliest (no match at all: RESEARCH with
\* confidence 0.3); the secondary capabilities are at most two, those of the
\* next two places of the ranking whose score is above 0, none the primary;
\* confidence is min(primary score + 0.3, 1.0), hence within [0.3, 1.0].
C11_Routing ==
    ret.op = "route" =>
        LET text == ret.user_input
            d    == ret.decision
            sec  == d.secondary_capabilities
            expected == SelectSeq(<<2, 3>>, LAMBDA r :
                            \E k \in DOMAIN Capability :
                                Rank(text, k) = r /\ MatchScore(text, k) > 0)
        IN  /\ \E k \in DOMAIN Capability :
                  /\ Capability[k] = d.primary_capability
                  /\ Rank(text, k) = 1
                  /\ \A j \in DOMAIN Capability :
                        /\ MatchScore(text, j) <= MatchScore(text, k)
                        /\ MatchScore(text, j) = MatchScore(text, k) => k <= j
                  /\ d.confidence
                        = (IF MatchScore(text, k) + 18 < 60
                           THEN MatchScore(text, k) + 18 ELSE 60)
            /\ (\A j \in DOMAIN Capability : MatchScore(text, j) = 0)
                  => (d.primary_capability = "research" /\ d.confidence = 18)
            /\ Len(sec) <= 2
            /\ Len(sec) = Len(expected)
            /\ \A i \in DOMAIN sec :
                  /\ sec[i] # d.primary_capability
                  /\ \E k \in DOMAIN Capability :
                        /\ Capability[k] = sec[i]
                        /\ Rank(text, k) = expected[i]
                        /\ MatchScore(text, k) > 0
            /\ d.confidence >= 18
            /\ d.confidence <= 60

\* An input that matches both WRITE patterns and both REMEMBER patterns and
\* nothing else: routed to WRITE, the earlier of the two, with REMEMBER the
\* only secondary capability and confidence 1.0.
C11_Witness ==
    /\ ret.op = "route"
    /\ ret.user_input = {"write", "edit", "remember", "keep in mind"}
    /\ ret.decision.primary_capability = "write"
    /\ ret.decision.secondary_capabilities = <<"remember">>
    /\ ret.decision.confidence = 60

====
